---- MODULE Spec2Model ----
(***************************************************************************)
(* Model of the marker-based document diff engine of yaml_diffs            *)
(* (src/src/yaml_diffs/diff.py).  One diff_documents call is a run of the  *)
(* state machine: validation, indexing, the exact-match loop (iterating a  *)
(* set, hence in any order), move matching, record assembly and counting.  *)
(***************************************************************************)
EXTENDS Integers, Sequences, FiniteSets, TLC

VARIABLES old, new, pc, error, old_map, new_map, exact_todo, exact_matches,
          changes, unmatched_old, unmatched_new, marker_to_new_keys,
          loop_keys, matches, emit_todo, result, run, prev,
          call, returned

vars == <<old, new, pc, error, old_map, new_map, exact_todo, exact_matches,
          changes, unmatched_old, unmatched_new, marker_to_new_keys,
          loop_keys, matches, emit_todo, result, run, prev,
          call, returned>>

(***************************************************************************)
(* Bounds of the model.                                                    *)
(***************************************************************************)
MaxOldSections == 2
MaxNewSections == 3
MaxShapeSections == 3
MaxRuns == 2
MaxContentLen == 3

(***************************************************************************)
(* Optional values (Python None / a value) are sequences of length <= 1.   *)
(***************************************************************************)
None == <<>>
Some(v) == <<v>>

(***************************************************************************)
(* Input data.  Content strings are sequences of characters; titles and    *)
(* markers are atomic strings.                                             *)
(***************************************************************************)
Markers == {"1", "A"}

c_abcd == <<"a", " ", "b", " ", "c", " ", "d">>
c_abcde == <<"a", " ", "b", " ", "c", " ", "d", " ", "e">>
c_abc == <<"a", " ", "b", " ", "c">>
c_empty == <<>>
c_bacd == <<"b", " ", "a", " ", "c", " ", "d">>

BaseAttr == [title |-> "T", content |-> c_abcd]

NewVariants ==
    { [title |-> t, content |-> c] : t \in {"T", "U"}, c \in {c_abcd, c_bacd, c_abcde, c_abc} }
    \cup { [title |-> "T", content |-> c_empty] }

\* Ordered forests of exactly n nodes, every node labelled with a marker.
RECURSIVE ForestsN(_)
ForestsN(n) ==
    IF n = 0 THEN { <<>> }
    ELSE UNION { { <<[marker |-> m, sections |-> kids]>> \o rest :
                     m \in Markers, kids \in ForestsN(k - 1), rest \in ForestsN(n - k) } :
                 k \in 1..n }

RECURSIVE ForestSize(_)
ForestSize(f) ==
    IF f = <<>> THEN 0
    ELSE 1 + ForestSize(Head(f).sections) + ForestSize(Tail(f))

\* Sections over a forest: the node with preorder number i gets the id
\* <<"s", i>> and the title and content attrs[i].
RECURSIVE Decorate(_, _, _)
Decorate(f, start, attrs) ==
    IF f = <<>> THEN <<>>
    ELSE LET kidsize == ForestSize(Head(f).sections)
         IN  <<[id |-> <<"s", start>>,
                marker |-> Head(f).marker,
                title |-> attrs[start].title,
                content |-> attrs[start].content,
                sections |-> Decorate(Head(f).sections, start + 1, attrs)]>>
             \o Decorate(Tail(f), start + 1 + kidsize, attrs)

\* Two siblings of the forest carry the same marker.
RECURSIVE ForestCollides(_)
ForestCollides(f) ==
    \/ \E i, j \in DOMAIN f : i # j /\ f[i].marker = f[j].marker
    \/ \E i \in DOMAIN f : ForestCollides(f[i].sections)

AllBase(n) == [i \in 1..n |-> BaseAttr]

OneEdited(n, dev, attr) == [i \in 1..n |-> IF i = dev THEN attr ELSE BaseAttr]

\* Documents of at most maxn sections with base attributes ...
BaseDocs(maxn) ==
    UNION { { Decorate(f, 1, AllBase(n)) : f \in ForestsN(n) } : n \in 0..maxn }

\* ... and those with unique sibling markers in which one section was edited.
EditedDocs(maxn) ==
    UNION { { Decorate(f, 1, OneEdited(n, dev, attr)) :
                f \in { g \in ForestsN(n) : ~ForestCollides(g) },
                dev \in 1..n, attr \in NewVariants } :
            n \in 0..maxn }

\* Documents whose sections were edited in turn: renamed, content changed
\* a little, untouched, content changed a lot, ...
EditPattern ==
    << [title |-> "U", content |-> c_abcd],
       [title |-> "T", content |-> c_abcde],
       [title |-> "T", content |-> c_abcd],
       [title |-> "T", content |-> c_abc] >>

PatternAttrs(n) == [i \in 1..n |-> EditPattern[((i - 1) % Len(EditPattern)) + 1]]

PatternDocs(maxn) ==
    UNION { { Decorate(f, 1, PatternAttrs(n)) : f \in ForestsN(n) } : n \in 0..maxn }

(***************************************************************************)
(* Python dicts keep insertion order: a dict is a sequence of entries      *)
(* [key, val] with pairwise different keys.                                *)
(***************************************************************************)
DictKeys(d) == [i \in DOMAIN d |-> d[i].key]

DictHas(d, k) == \E i \in DOMAIN d : d[i].key = k

DictGet(d, k) == d[CHOOSE i \in DOMAIN d : d[i].key = k].val

\* d[k] = v: an existing key keeps its position, a new key goes last.
DictSet(d, k, v) ==
    IF DictHas(d, k)
    THEN [i \in DOMAIN d |-> IF d[i].key = k THEN [key |-> k, val |-> v] ELSE d[i]]
    ELSE Append(d, [key |-> k, val |-> v])

\* d.update(other)
RECURSIVE DictUpdate(_, _)
DictUpdate(d, other) ==
    IF other = <<>> THEN d
    ELSE DictUpdate(DictSet(d, Head(other).key, Head(other).val), Tail(other))

\* del d[k]
DictDel(d, k) == SelectSeq(d, LAMBDA e : e.key # k)

SeqRange(s) == { s[i] : i \in DOMAIN s }

\* sep.join(parts), the result kept as the sequence of its pieces.
RECURSIVE Join(_, _)
Join(sep, parts) ==
    IF parts = <<>> THEN <<>>
    ELSE IF Len(parts) = 1 THEN <<parts[1]>>
    ELSE <<parts[1], sep>> \o Join(sep, Tail(parts))

(***************************************************************************)
(* _validate_unique_markers: None when the tree is valid, otherwise the    *)
(* raised ValueError (the marker and the path text of its message).        *)
(***************************************************************************)
PathStr(parent_path) ==
    IF parent_path # <<>> THEN Join(" -> ", parent_path) ELSE <<"root">>

DuplicateMarkerError(marker, parent_path) ==
    [marker |-> marker, path_str |-> PathStr(parent_path)]

\* A validator that looks at the top level only.
ValidateNestedNever(section) == FALSE

\* if section.sections:
ValidateNested(section) == section.sections # <<>>

RECURSIVE ValidateUniqueMarkers(_, _)
RECURSIVE ValidateLoop(_, _, _, _)
ValidateLoop(sections, i, seen_markers, parent_path) ==
    IF i > Len(sections) THEN None
    ELSE LET section == sections[i] IN
         IF section.marker \in seen_markers
         THEN Some(DuplicateMarkerError(section.marker, parent_path))
         ELSE LET nested == IF ValidateNested(section)
                            THEN ValidateUniqueMarkers(section.sections,
                                                       Append(parent_path, section.marker))
                            ELSE None
              IN  IF nested # None THEN nested
                  ELSE ValidateLoop(sections, i + 1,
                                    seen_markers \cup {section.marker}, parent_path)

ValidateUniqueMarkers(sections, parent_path) ==
    ValidateLoop(sections, 1, {}, parent_path)

(***************************************************************************)
(* _build_marker_map: (marker, parent marker path) -> (section, marker     *)
(* path, id path), in top-down traversal order.                            *)
(***************************************************************************)
MarkerKey(section, parent_marker_path) == <<section.marker, parent_marker_path>>

\* An indexer that does not descend into nested sections.
HasNestedNever(section) == FALSE

\* if section.sections:
HasNested(section) == section.sections # <<>>

RECURSIVE BuildMarkerMap(_, _, _)
RECURSIVE BuildLoop(_, _, _, _, _)
BuildLoop(sections, i, mapping, parent_marker_path, parent_id_path) ==
    IF i > Len(sections) THEN mapping
    ELSE LET section == sections[i]
             key == MarkerKey(section, parent_marker_path)
             marker_path == Append(parent_marker_path, section.marker)
             id_path == Append(parent_id_path, section.id)
             stored == DictSet(mapping, key,
                               [section |-> section, marker_path |-> marker_path,
                                id_path |-> id_path])
             merged == IF HasNested(section)
                       THEN DictUpdate(stored,
                                       BuildMarkerMap(section.sections, marker_path, id_path))
                       ELSE stored
         IN  BuildLoop(sections, i + 1, merged, parent_marker_path, parent_id_path)

BuildMarkerMap(sections, parent_marker_path, parent_id_path) ==
    BuildLoop(sections, 1, <<>>, parent_marker_path, parent_id_path)

(***************************************************************************)
(* _calculate_content_similarity.  The float it returns is kept as the     *)
(* exact fraction num/den.                                                 *)
(***************************************************************************)
Whitespace == {" ", "\t", "\n"}

\* str.split(): the maximal runs of non-whitespace characters.
RECURSIVE SplitFrom(_, _, _, _)
SplitFrom(s, i, cur, acc) ==
    IF i > Len(s) THEN (IF cur = <<>> THEN acc ELSE Append(acc, cur))
    ELSE IF s[i] \in Whitespace
         THEN SplitFrom(s, i + 1, <<>>, IF cur = <<>> THEN acc ELSE Append(acc, cur))
         ELSE SplitFrom(s, i + 1, Append(cur, s[i]), acc)

Split(s) == SplitFrom(s, 1, <<>>, <<>>)

Words(s) == SeqRange(Split(s))

One == [num |-> 1, den |-> 1]
Zero == [num |-> 0, den |-> 1]

\* A scorer that divides by the sum of the two sizes (Dice, not Jaccard).
CalculateDiceSimilarity(content1, content2) ==
    IF content1 = <<>> /\ content2 = <<>> THEN One
    ELSE IF content1 = <<>> \/ content2 = <<>> THEN Zero
    ELSE IF Words(content1) = {} /\ Words(content2) = {} THEN One
    ELSE [num |-> 2 * Cardinality(Words(content1) \cap Words(content2)),
          den |-> Cardinality(Words(content1)) + Cardinality(Words(content2))]

CalculateContentSimilarity(content1, content2) ==
    IF content1 = <<>> /\ content2 = <<>> THEN One
    ELSE IF content1 = <<>> \/ content2 = <<>> THEN Zero
    ELSE LET words1 == Words(content1)
             words2 == Words(content2)
             intersection == words1 \cap words2
             union == words1 \cup words2
         IN  IF words1 = {} /\ words2 = {} THEN One
             ELSE IF words1 = {} \/ words2 = {} THEN Zero
             ELSE IF union = {} THEN One
             ELSE [num |-> Cardinality(intersection), den |-> Cardinality(union)]

\* content_similarity >= 0.8, with 0.8 = ThresholdNum / ThresholdDen
ThresholdNum == 4
ThresholdDen == 5

\* A gate that needs more than the threshold.
SimilarityAbove(content_similarity) ==
    content_similarity.num * 5 > 4 * content_similarity.den

SimilarityHigh(content_similarity) ==
    content_similarity.num * ThresholdDen >= ThresholdNum * content_similarity.den

(***************************************************************************)
(* DiffResult: the fields a constructor call does not pass stay None.      *)
(***************************************************************************)
EmptyDiffResult ==
    [section_id |-> None, change_type |-> "NONE", marker |-> None,
     old_marker_path |-> None, new_marker_path |-> None,
     old_id_path |-> None, new_id_path |-> None,
     old_content |-> None, new_content |-> None,
     old_title |-> None, new_title |-> None]

\* The arguments every record of a matched pair is built with.
PairResult(o, n, change_type) ==
    [EmptyDiffResult EXCEPT
        !.section_id = Some(o.section.id),
        !.change_type = change_type,
        !.marker = Some(o.section.marker),
        !.old_marker_path = Some(o.marker_path),
        !.new_marker_path = Some(n.marker_path),
        !.old_id_path = Some(o.id_path),
        !.new_id_path = Some(n.id_path)]

ContentChangedResult(o, n) ==
    [PairResult(o, n, "CONTENT_CHANGED") EXCEPT
        !.old_content = Some(o.section.content),
        !.new_content = Some(n.section.content)]

RenamedResult(o, n) ==
    [PairResult(o, n, "RENAMED") EXCEPT
        !.old_title = Some(o.section.title),
        !.new_title = Some(n.section.title)]

UnchangedResult(o, n) == PairResult(o, n, "UNCHANGED")

\* A MOVED record with the two sides exchanged.
MovedResultSwapped(o, n) == PairResult(n, o, "MOVED")

MovedResult(o, n) == PairResult(o, n, "MOVED")

\* A DELETED record that forgets the title.
DeletedResultNoTitle(o) ==
    [EmptyDiffResult EXCEPT
        !.section_id = Some(o.section.id),
        !.change_type = "DELETED",
        !.marker = Some(o.section.marker),
        !.old_marker_path = Some(o.marker_path),
        !.old_id_path = Some(o.id_path),
        !.old_content = Some(o.section.content)]

\* An ADDED record that also fills the old paths, as a matched pair does.
AddedResultWithOldPaths(n) ==
    [EmptyDiffResult EXCEPT
        !.section_id = Some(n.section.id),
        !.change_type = "ADDED",
        !.marker = Some(n.section.marker),
        !.old_marker_path = Some(n.marker_path),
        !.new_marker_path = Some(n.marker_path),
        !.old_id_path = Some(n.id_path),
        !.new_id_path = Some(n.id_path),
        !.new_content = Some(n.section.content),
        !.new_title = Some(n.section.title)]

DeletedResult(o) ==
    [EmptyDiffResult EXCEPT
        !.section_id = Some(o.section.id),
        !.change_type = "DELETED",
        !.marker = Some(o.section.marker),
        !.old_marker_path = Some(o.marker_path),
        !.old_id_path = Some(o.id_path),
        !.old_content = Some(o.section.content),
        !.old_title = Some(o.section.title)]

AddedResult(n) ==
    [EmptyDiffResult EXCEPT
        !.section_id = Some(n.section.id),
        !.change_type = "ADDED",
        !.marker = Some(n.section.marker),
        !.new_marker_path = Some(n.marker_path),
        !.new_id_path = Some(n.id_path),
        !.new_content = Some(n.section.content),
        !.new_title = Some(n.section.title)]

When(cond, rec) == IF cond THEN <<rec>> ELSE <<>>

\* A rename reported whatever happened to the content.
ExactRenamedAnyContent(o, n) == o.section.title # n.section.title

\* An unchanged test that does not look at the title.
ExactUnchangedIgnoresTitle(o, n) == o.section.content = n.section.content

\* A moved pair whose title change is never reported.
MovedRenamedNever(o, n) == FALSE

\* The records of one exact match (o, n: the entries of the key in old_map, new_map).
ExactContentChanged(o, n) == o.section.content # n.section.content

ExactRenamed(o, n) ==
    o.section.title # n.section.title /\ o.section.content = n.section.content

ExactUnchanged(o, n) ==
    o.section.content = n.section.content /\ o.section.title = n.section.title

ExactRecords(o, n) ==
    When(ExactContentChanged(o, n), ContentChangedResult(o, n))
    \o When(ExactRenamed(o, n), RenamedResult(o, n))
    \o When(ExactUnchanged(o, n), UnchangedResult(o, n))

\* The records of one moved pair.
MovedRenamed(o, n) ==
    LET title_changed == o.section.title # n.section.title
    IN  title_changed /\ o.section.content = n.section.content

\* A content check of moved pairs that does not look at the titles.
MovedContentChangedAnyTitle(o, n) ==
    LET content_similarity ==
            CalculateContentSimilarity(o.section.content, n.section.content)
        content_changed == o.section.content # n.section.content
    IN  content_changed /\ SimilarityHigh(content_similarity)

MovedContentChanged(o, n) ==
    LET content_similarity ==
            CalculateContentSimilarity(o.section.content, n.section.content)
        content_changed == o.section.content # n.section.content
    IN  content_changed /\ SimilarityHigh(content_similarity)
        /\ o.section.title = n.section.title

MovedRecords(o, n) ==
    <<MovedResult(o, n)>>
    \o When(MovedRenamed(o, n), RenamedResult(o, n))
    \o When(MovedContentChanged(o, n), ContentChangedResult(o, n))

DeletedRecords(d) == [i \in DOMAIN d |-> DeletedResult(d[i].val)]

\* No ADDED record at all: sections only the new document has go unreported.
AddedRecordsNone(d) == <<>>

AddedRecords(d) == [i \in DOMAIN d |-> AddedResult(d[i].val)]

\* A modified_count that forgets the renames.
DocumentDiffContentOnly(chs) ==
    [changes |-> chs,
     added_count |-> Cardinality({ i \in DOMAIN chs : chs[i].change_type = "ADDED" }),
     deleted_count |-> Cardinality({ i \in DOMAIN chs : chs[i].change_type = "DELETED" }),
     modified_count |->
        Cardinality({ i \in DOMAIN chs : chs[i].change_type = "CONTENT_CHANGED" }),
     moved_count |-> Cardinality({ i \in DOMAIN chs : chs[i].change_type = "MOVED" })]

\* sum(1 for c in changes if c.change_type in types)
CountOf(chs, types) == Cardinality({ i \in DOMAIN chs : chs[i].change_type \in types })

DocumentDiff(chs) ==
    [changes |-> chs,
     added_count |-> CountOf(chs, {"ADDED"}),
     deleted_count |-> CountOf(chs, {"DELETED"}),
     modified_count |-> CountOf(chs, {"CONTENT_CHANGED", "RENAMED"}),
     moved_count |-> CountOf(chs, {"MOVED"})]

\* The unmatched pools taken without filtering out the exact matches.
UnmatchedUnfiltered(m, exact) == m

\* {k: v for k, v in m.items() if k not in exact}
Unmatched(m, exact) == SelectSeq(m, LAMBDA e : e.key \notin exact)

\* A grouping that keeps only the last key of every marker.
RECURSIVE GroupByMarkerLastOnly(_, _)
GroupByMarkerLastOnly(keys, groups) ==
    IF keys = <<>> THEN groups
    ELSE GroupByMarkerLastOnly(Tail(keys), DictSet(groups, Head(keys)[1], <<Head(keys)>>))

\* marker -> the keys of unmatched_new with that marker, in dict order
RECURSIVE GroupByMarker(_, _)
GroupByMarker(keys, groups) ==
    IF keys = <<>> THEN groups
    ELSE LET new_key == Head(keys)
             marker == new_key[1]
             started == IF ~DictHas(groups, marker)
                        THEN DictSet(groups, marker, <<>>) ELSE groups
         IN  GroupByMarker(Tail(keys),
                           DictSet(started, marker,
                                   Append(DictGet(started, marker), new_key)))

\* An iteration over the list in any order, as if it were a set.
ListNextAny(l) == DOMAIN l

\* Which element an iteration may yield next: a set in any order, a list
\* or dict in its own order.
SetNext(S) == S
ListNext(l) == IF l = <<>> THEN {} ELSE {1}

\* A pop that leaves the list as it was: every old key takes the same candidate.
AfterPopKeepsAll(l) == l

\* list.pop(): the last candidate is taken, not the first.
PopIndexLast(l) == Len(l)

\* list.pop(0): the element returned and the list left behind
PopIndex(l) == 1

Popped(l) == l[PopIndex(l)]

AfterPop(l) == [i \in 1..(Len(l) - 1) |-> IF i < PopIndex(l) THEN l[i] ELSE l[i + 1]]

RemoveAt(l, j) == [i \in 1..(Len(l) - 1) |-> IF i < j THEN l[i] ELSE l[i + 1]]

(***************************************************************************)
(* The state machine: one run of diff_documents(old, new).                 *)
(***************************************************************************)
Fresh ==
    /\ pc = "validate"
    /\ error = None
    /\ old_map = <<>>
    /\ new_map = <<>>
    /\ exact_todo = {}
    /\ exact_matches = {}
    /\ changes = <<>>
    /\ unmatched_old = <<>>
    /\ unmatched_new = <<>>
    /\ marker_to_new_keys = <<>>
    /\ loop_keys = <<>>
    /\ matches = <<>>
    /\ emit_todo = <<>>
    /\ result = None

\* A small old document and a new document in which one section was edited.
Init ==
    /\ old \in BaseDocs(MaxOldSections)
    /\ new \in BaseDocs(MaxNewSections) \cup EditedDocs(MaxNewSections)
    /\ run = 1
    /\ prev = None
    /\ call = None
    /\ returned = None
    /\ Fresh

\* Two documents of any shape, the sections of the new one edited in turn.
InitShapes ==
    /\ old \in BaseDocs(MaxShapeSections)
    /\ new \in PatternDocs(MaxShapeSections)
    /\ run = 1
    /\ prev = None
    /\ call = None
    /\ returned = None
    /\ Fresh

\* _validate_unique_markers(old.sections); _validate_unique_markers(new.sections)
Validate ==
    /\ pc = "validate"
    /\ LET old_error == ValidateUniqueMarkers(old, <<>>)
           new_error == ValidateUniqueMarkers(new, <<>>)
       IN  IF old_error # None
           THEN error' = old_error /\ pc' = "failed"
           ELSE IF new_error # None
           THEN error' = new_error /\ pc' = "failed"
           ELSE error' = None /\ pc' = "build"
    /\ UNCHANGED <<call, returned, old, new, old_map, new_map, exact_todo, exact_matches, changes,
                   unmatched_old, unmatched_new, marker_to_new_keys, loop_keys,
                   matches, emit_todo, result, run, prev>>

\* old_map, new_map, changes = [], exact_matches = set(), and the key set the
\* exact-match loop iterates
BuildMaps ==
    /\ pc = "build"
    /\ old_map' = BuildMarkerMap(old, <<>>, <<>>)
    /\ new_map' = BuildMarkerMap(new, <<>>, <<>>)
    /\ changes' = <<>>
    /\ exact_matches' = {}
    /\ exact_todo' = SeqRange(DictKeys(old_map')) \cap SeqRange(DictKeys(new_map'))
    /\ pc' = "exact"
    /\ UNCHANGED <<call, returned, old, new, error, unmatched_old, unmatched_new, marker_to_new_keys,
                   loop_keys, matches, emit_todo, result, run, prev>>

\* one iteration of: for key in old_map.keys() & new_map.keys()
ExactStep ==
    /\ pc = "exact"
    /\ \E key \in SetNext(exact_todo) :
          /\ exact_todo' = exact_todo \ {key}
          /\ exact_matches' = exact_matches \cup {key}
          /\ changes' = changes \o ExactRecords(DictGet(old_map, key), DictGet(new_map, key))
    /\ UNCHANGED <<call, returned, old, new, pc, error, old_map, new_map, unmatched_old, unmatched_new,
                   marker_to_new_keys, loop_keys, matches, emit_todo, result, run, prev>>

\* unmatched_old, unmatched_new
FindUnmatched ==
    /\ pc = "exact"
    /\ exact_todo = {}
    /\ unmatched_old' = Unmatched(old_map, exact_matches)
    /\ unmatched_new' = Unmatched(new_map, exact_matches)
    /\ pc' = "group"
    /\ UNCHANGED <<call, returned, old, new, error, old_map, new_map, exact_todo, exact_matches, changes,
                   marker_to_new_keys, loop_keys, matches, emit_todo, result, run, prev>>

\* _find_moved_sections, up to the snapshot list(unmatched_old.keys())
GroupNewKeys ==
    /\ pc = "group"
    /\ matches' = <<>>
    /\ marker_to_new_keys' = GroupByMarker(DictKeys(unmatched_new), <<>>)
    /\ loop_keys' = DictKeys(unmatched_old)
    /\ pc' = "find_moved"
    /\ UNCHANGED <<call, returned, old, new, error, old_map, new_map, exact_todo, exact_matches, changes,
                   unmatched_old, unmatched_new, emit_todo, result, run, prev>>

\* The iteration as it would be if the pools were the indexes themselves
\* (unmatched_old aliasing old_map, unmatched_new aliasing new_map).
MoveStepOnIndexes ==
    /\ pc = "find_moved"
    /\ \E i \in ListNext(loop_keys) :
          LET old_key == loop_keys[i]
              old_marker == old_key[1]
          IN  /\ loop_keys' = RemoveAt(loop_keys, i)
              /\ IF DictHas(marker_to_new_keys, old_marker)
                    /\ DictGet(marker_to_new_keys, old_marker) # <<>>
                 THEN LET candidates == DictGet(marker_to_new_keys, old_marker)
                          new_key == Popped(candidates)
                          rest == AfterPop(candidates)
                      IN  /\ matches' = Append(matches, <<old_key, new_key>>)
                          /\ unmatched_new' = DictDel(unmatched_new, new_key)
                          /\ unmatched_old' = DictDel(unmatched_old, old_key)
                          /\ new_map' = DictDel(new_map, new_key)
                          /\ old_map' = DictDel(old_map, old_key)
                          /\ marker_to_new_keys' =
                                IF rest = <<>>
                                THEN DictDel(marker_to_new_keys, old_marker)
                                ELSE DictSet(marker_to_new_keys, old_marker, rest)
                 ELSE UNCHANGED <<matches, unmatched_new, unmatched_old, marker_to_new_keys,
                                  old_map, new_map>>
    /\ UNCHANGED <<call, returned, old, new, pc, error, exact_todo, exact_matches,
                   changes, emit_todo, result, run, prev>>

\* one iteration of: for old_key in list(unmatched_old.keys())
MoveStep ==
    /\ pc = "find_moved"
    /\ \E i \in ListNext(loop_keys) :
          LET old_key == loop_keys[i]
              old_marker == old_key[1]
          IN  /\ loop_keys' = RemoveAt(loop_keys, i)
              /\ IF DictHas(marker_to_new_keys, old_marker)
                    /\ DictGet(marker_to_new_keys, old_marker) # <<>>
                 THEN LET candidates == DictGet(marker_to_new_keys, old_marker)
                          new_key == Popped(candidates)
                          rest == AfterPop(candidates)
                      IN  /\ matches' = Append(matches, <<old_key, new_key>>)
                          /\ unmatched_new' = DictDel(unmatched_new, new_key)
                          /\ unmatched_old' = DictDel(unmatched_old, old_key)
                          /\ marker_to_new_keys' =
                                IF rest = <<>>
                                THEN DictDel(marker_to_new_keys, old_marker)
                                ELSE DictSet(marker_to_new_keys, old_marker, rest)
                 ELSE UNCHANGED <<matches, unmatched_new, unmatched_old, marker_to_new_keys>>
    /\ UNCHANGED <<call, returned, old, new, pc, error, old_map, new_map, exact_todo, exact_matches,
                   changes, emit_todo, result, run, prev>>

\* return matches; moved_matches = ...
ReturnMatches ==
    /\ pc = "find_moved"
    /\ loop_keys = <<>>
    /\ emit_todo' = matches
    /\ pc' = "emit_moved"
    /\ UNCHANGED <<call, returned, old, new, error, old_map, new_map, exact_todo, exact_matches, changes,
                   unmatched_old, unmatched_new, marker_to_new_keys, loop_keys, matches,
                   result, run, prev>>

\* one iteration of: for old_key, new_key in moved_matches
EmitMoved ==
    /\ pc = "emit_moved"
    /\ emit_todo # <<>>
    /\ LET old_key == Head(emit_todo)[1]
           new_key == Head(emit_todo)[2]
       IN  changes' = changes \o MovedRecords(DictGet(old_map, old_key),
                                              DictGet(new_map, new_key))
    /\ emit_todo' = Tail(emit_todo)
    /\ UNCHANGED <<call, returned, old, new, pc, error, old_map, new_map, exact_todo, exact_matches,
                   unmatched_old, unmatched_new, marker_to_new_keys, loop_keys, matches,
                   result, run, prev>>

\* the DELETED and ADDED records, the counts and the returned DocumentDiff
Finish ==
    /\ pc = "emit_moved"
    /\ emit_todo = <<>>
    /\ changes' = changes \o DeletedRecords(unmatched_old) \o AddedRecords(unmatched_new)
    /\ result' = Some(DocumentDiff(changes'))
    /\ pc' = "done"
    /\ UNCHANGED <<call, returned, old, new, error, old_map, new_map, exact_todo, exact_matches,
                   unmatched_old, unmatched_new, marker_to_new_keys, loop_keys, matches,
                   emit_todo, run, prev>>

\* What a run settled: the four partitions and the move pairs.
Partition ==
    [exact |-> exact_matches,
     moved |-> matches,
     unmatched_old |-> DictKeys(unmatched_old),
     unmatched_new |-> DictKeys(unmatched_new)]

\* The caller calls diff_documents again with the same two documents.
Rerun ==
    /\ pc = "done"
    /\ run < MaxRuns
    /\ run' = run + 1
    /\ prev' = Some(Partition)
    /\ pc' = "validate"
    /\ error' = None
    /\ old_map' = <<>>
    /\ new_map' = <<>>
    /\ exact_todo' = {}
    /\ exact_matches' = {}
    /\ changes' = <<>>
    /\ unmatched_old' = <<>>
    /\ unmatched_new' = <<>>
    /\ marker_to_new_keys' = <<>>
    /\ loop_keys' = <<>>
    /\ matches' = <<>>
    /\ emit_todo' = <<>>
    /\ result' = None
    /\ UNCHANGED <<call, returned, old, new>>

Next ==
    \/ Validate
    \/ BuildMaps
    \/ ExactStep
    \/ FindUnmatched
    \/ GroupNewKeys
    \/ MoveStep
    \/ ReturnMatches
    \/ EmitMoved
    \/ Finish

Spec == Init /\ [][Next]_vars

\* Repeated calls on the same two documents.
NextRuns ==
    \/ Next
    \/ Rerun

SpecRuns == InitShapes /\ [][NextRuns]_vars

(***************************************************************************)
(* A call of _calculate_content_similarity on its own.                     *)
(***************************************************************************)
Chars == {"a", "A", "b", " "}

RECURSIVE StringsOfLen(_)
StringsOfLen(n) ==
    IF n = 0 THEN { <<>> }
    ELSE { Append(s, c) : s \in StringsOfLen(n - 1), c \in Chars }

Contents == UNION { StringsOfLen(n) : n \in 0..MaxContentLen }

\* No diff_documents run is in progress.
NoRun ==
    /\ old = <<>>
    /\ new = <<>>
    /\ run = 1
    /\ prev = None
    /\ Fresh

InitSim ==
    /\ call \in { Some([fn |-> "_calculate_content_similarity",
                        content1 |-> a, content2 |-> b]) : a \in Contents, b \in Contents }
    /\ returned = None
    /\ NoRun

Similarity ==
    /\ call # None
    /\ call[1].fn = "_calculate_content_similarity"
    /\ returned = None
    /\ returned' = Some(CalculateContentSimilarity(call[1].content1, call[1].content2))
    /\ UNCHANGED <<call, old, new, pc, error, old_map, new_map, exact_todo, exact_matches,
                   changes, unmatched_old, unmatched_new, marker_to_new_keys, loop_keys,
                   matches, emit_todo, result, run, prev>>

NextSim == Similarity

SpecSim == InitSim /\ [][NextSim]_vars

(***************************************************************************)
(* The move scenario: the section "1" ("Intro", "hello world") sits under  *)
(* chapter "A" in the old document and under chapter "B" in the new one.   *)
(* Each document may hold further chapters, without sections of their own, *)
(* in any order.                                                           *)
(***************************************************************************)
c_hello_world == <<"h", "e", "l", "l", "o", " ", "w", "o", "r", "l", "d">>

ChapterMarkers == {"A", "B", "C"}

IntroSection ==
    [id |-> <<"s", 1>>, marker |-> "1", title |-> "Intro",
     content |-> c_hello_world, sections |-> <<>>]

Chapter(m, kids) ==
    [id |-> <<"c", m>>, marker |-> m, title |-> "Chapter",
     content |-> c_empty, sections |-> kids]

\* The orders of chapters, no chapter twice, with the holder among them.
ChapterOrders(holder) ==
    { ms \in UNION { [1..n -> ChapterMarkers] : n \in 1..Cardinality(ChapterMarkers) } :
        /\ \A i, j \in DOMAIN ms : i # j => ms[i] # ms[j]
        /\ \E i \in DOMAIN ms : ms[i] = holder }

ScenarioDocs(holder) ==
    { [i \in DOMAIN ms |->
         Chapter(ms[i], IF ms[i] = holder THEN <<IntroSection>> ELSE <<>>)] :
      ms \in ChapterOrders(holder) }

InitScenario ==
    /\ old \in ScenarioDocs("A")
    /\ new \in ScenarioDocs("B")
    /\ run = 1
    /\ prev = None
    /\ call = None
    /\ returned = None
    /\ Fresh

SpecScenario == InitScenario /\ [][Next]_vars

(***************************************************************************)
(* format_diff (src/src/yaml_diffs/formatters/__init__.py).  The formatter *)
(* classes are opaque: the outcome of formatter.format(...) is the record  *)
(* of the call, and the parameters a formatter accepts are an input.       *)
(***************************************************************************)
OutputFormats == {"json", "text", "yaml", "invalid", "JSON", ""}

KwargNames == {"show_context", "width"}

FilterChangeTypes == {None, Some(<<>>), Some(<<"ADDED">>), Some(<<"MOVED", "RENAMED">>)}

FilterSectionPaths == {None, Some("A -> 1")}

Diffs ==
    { DocumentDiff(<<>>),
      DocumentDiff(<<[EmptyDiffResult EXCEPT !.section_id = Some(<<"s", 1>>),
                                             !.change_type = "CONTENT_CHANGED",
                                             !.marker = Some("1")]>>) }

Returns(v) == [kind |-> "return", value |-> v]

Raises(type, message) == [kind |-> "raise", type |-> type, message |-> message]

\* formatter.format(diff, filter_change_types=..., filter_section_path=..., **valid_kwargs)
FormatterFormat(formatter, diff, filter_change_types, filter_section_path, valid_kwargs) ==
    [formatter |-> formatter,
     diff |-> diff,
     filter_change_types |-> filter_change_types,
     filter_section_path |-> filter_section_path,
     kwargs |-> valid_kwargs]

\* A dispatch that treats every unknown format as "json", the default.
FormatDiffDefaultJson(diff, output_format, filter_change_types, filter_section_path, kwargs, sig) ==
    LET valid_kwargs == { k \in kwargs : k \in sig }
        formatter == IF output_format = "text" THEN "TextFormatter"
                     ELSE IF output_format = "yaml" THEN "YamlFormatter"
                     ELSE "JsonFormatter"
    IN  Returns(FormatterFormat(formatter, diff, filter_change_types,
                                filter_section_path, valid_kwargs))

\* format_diff; sig stands for inspect.signature(formatter.format).parameters
FormatDiff(diff, output_format, filter_change_types, filter_section_path, kwargs, sig) ==
    LET valid_kwargs == { k \in kwargs : k \in sig }
    IN  IF output_format = "json"
        THEN Returns(FormatterFormat("JsonFormatter", diff, filter_change_types,
                                     filter_section_path, valid_kwargs))
        ELSE IF output_format = "text"
        THEN Returns(FormatterFormat("TextFormatter", diff, filter_change_types,
                                     filter_section_path, valid_kwargs))
        ELSE IF output_format = "yaml"
        THEN Returns(FormatterFormat("YamlFormatter", diff, filter_change_types,
                                     filter_section_path, valid_kwargs))
        ELSE Raises("ValueError",
                    <<"Unknown format: ", output_format, ". Must be one of: json, text, yaml">>)

InitFormat ==
    /\ call \in { Some([fn |-> "format_diff", diff |-> d, output_format |-> f,
                        filter_change_types |-> t, filter_section_path |-> p,
                        kwargs |-> k]) :
                   d \in Diffs, f \in OutputFormats, t \in FilterChangeTypes,
                   p \in FilterSectionPaths, k \in SUBSET KwargNames }
    /\ returned = None
    /\ NoRun

Format ==
    /\ call # None
    /\ call[1].fn = "format_diff"
    /\ returned = None
    /\ \E sig \in SUBSET KwargNames :
          returned' = Some(FormatDiff(call[1].diff, call[1].output_format,
                                      call[1].filter_change_types,
                                      call[1].filter_section_path,
                                      call[1].kwargs, sig))
    /\ UNCHANGED <<call, old, new, pc, error, old_map, new_map, exact_todo, exact_matches,
                   changes, unmatched_old, unmatched_new, marker_to_new_keys, loop_keys,
                   matches, emit_todo, result, run, prev>>

NextFormat == Format

SpecFormat == InitFormat /\ [][NextFormat]_vars

(***************************************************************************)
(* The reversed call: after diff_documents(a, b) has returned, the caller  *)
(* calls diff_documents(b, a); prev keeps what the first call settled.     *)
(***************************************************************************)
ValidDocs(docs) == { d \in docs : ValidateUniqueMarkers(d, <<>>) = None }

InitReverse ==
    /\ old \in ValidDocs(BaseDocs(MaxOldSections))
    /\ new \in ValidDocs(PatternDocs(MaxShapeSections))
    /\ run = 1
    /\ prev = None
    /\ call = None
    /\ returned = None
    /\ Fresh

Reverse ==
    /\ pc = "done"
    /\ run < MaxRuns
    /\ run' = run + 1
    /\ prev' = Some([partition |-> Partition, diff |-> result[1]])
    /\ old' = new
    /\ new' = old
    /\ pc' = "validate"
    /\ error' = None
    /\ old_map' = <<>>
    /\ new_map' = <<>>
    /\ exact_todo' = {}
    /\ exact_matches' = {}
    /\ changes' = <<>>
    /\ unmatched_old' = <<>>
    /\ unmatched_new' = <<>>
    /\ marker_to_new_keys' = <<>>
    /\ loop_keys' = <<>>
    /\ matches' = <<>>
    /\ emit_todo' = <<>>
    /\ result' = None
    /\ UNCHANGED <<call, returned>>

NextReverse ==
    \/ Next
    \/ Reverse

SpecReverse == InitReverse /\ [][NextReverse]_vars

TypeOK ==
    /\ pc \in {"validate", "failed", "build", "exact", "group", "find_moved",
               "emit_moved", "done"}
    /\ run \in 1..MaxRuns

(***************************************************************************)
(* What the claims speak about, stated on the documents themselves.        *)
(***************************************************************************)
\* Every section of a tree, with its ancestors' markers and its two paths.
RECURSIVE NodesOf(_, _, _)
NodesOf(sections, mpath, ipath) ==
    UNION { LET s == sections[i] IN
            { [section |-> s, parent_path |-> mpath,
               marker_path |-> Append(mpath, s.marker),
               id_path |-> Append(ipath, s.id)] }
            \cup NodesOf(s.sections, Append(mpath, s.marker), Append(ipath, s.id)) :
            i \in DOMAIN sections }

OldNodes == NodesOf(old, <<>>, <<>>)
NewNodes == NodesOf(new, <<>>, <<>>)

KeyOf(x) == <<x.section.marker, x.parent_path>>

\* Every list of siblings of a tree, with the marker path of their parent.
RECURSIVE SiblingLists(_, _)
SiblingLists(sections, mpath) ==
    { <<mpath, sections>> }
    \cup UNION { SiblingLists(sections[i].sections, Append(mpath, sections[i].marker)) :
                 i \in DOMAIN sections }

Collides(siblings, m) ==
    \E i, j \in DOMAIN siblings :
        i # j /\ siblings[i].marker = m /\ siblings[j].marker = m

HasDuplicate(doc) ==
    \E sl \in SiblingLists(doc, <<>>) : \E m \in Markers : Collides(sl[2], m)

\* The text of an ancestor path in the error message.
PathText(path) ==
    IF path = <<>> THEN <<"root">>
    ELSE [k \in 1..(2 * Len(path) - 1) |->
            IF k % 2 = 1 THEN path[(k + 1) \div 2] ELSE " -> "]

\* The indexes of the records of one type.
RecordsOfType(chs, type) == { i \in DOMAIN chs : chs[i].change_type = type }

\* The indexes of the records that carry the given old or new marker path.
RecordsOfOld(chs, mp) == { i \in DOMAIN chs : chs[i].old_marker_path = Some(mp) }
RecordsOfNew(chs, mp) == { i \in DOMAIN chs : chs[i].new_marker_path = Some(mp) }

Bit(b) == IF b THEN 1 ELSE 0

C2_Identity ==
    (pc = "done" /\ old = new) =>
        LET r == result[1] IN
        /\ \A i \in DOMAIN r.changes : r.changes[i].change_type = "UNCHANGED"
        /\ Len(r.changes) = Cardinality(OldNodes)
        /\ \A x \in OldNodes :
              /\ Cardinality(RecordsOfOld(r.changes, x.marker_path)) = 1
              /\ Cardinality(RecordsOfNew(r.changes, x.marker_path)) = 1
        /\ r.added_count = 0 /\ r.deleted_count = 0
        /\ r.moved_count = 0 /\ r.modified_count = 0

\* The identity diff of a tree with a nested section.
C2_Witness ==
    /\ pc = "done"
    /\ old = new
    /\ \E x \in OldNodes : x.parent_path # <<>>

\* C3: every section of old is covered by exactly one of: an exact match,
\* a move pair, the unmatched-old pool (one DELETED record); every section
\* of new by exactly one of: an exact match, a move pair, the unmatched-new
\* pool (one ADDED record); the records of a match exist, and no record is
\* about a section that is in neither tree.
C3_PartitionComplete ==
    (pc = "done") =>
        /\ \A x \in OldNodes :
              LET k == KeyOf(x)
                  inExact == Bit(k \in exact_matches)
                  inMoved == Cardinality({ j \in DOMAIN matches : matches[j][1] = k })
                  inPool == Cardinality({ j \in DOMAIN unmatched_old : unmatched_old[j].key = k })
                  ofOld == RecordsOfOld(changes, x.marker_path)
              IN  /\ inExact + inMoved + inPool = 1
                  /\ Cardinality(ofOld \cap RecordsOfType(changes, "DELETED")) = inPool
                  /\ Cardinality(ofOld \cap RecordsOfType(changes, "MOVED")) = inMoved
                  /\ inExact = 1 =>
                        \E i \in ofOld : changes[i].change_type \in
                                            {"CONTENT_CHANGED", "RENAMED", "UNCHANGED"}
                  /\ inExact = 0 =>
                        \A i \in ofOld : changes[i].new_marker_path # Some(x.marker_path)
        /\ \A y \in NewNodes :
              LET k == KeyOf(y)
                  inExact == Bit(k \in exact_matches)
                  inMoved == Cardinality({ j \in DOMAIN matches : matches[j][2] = k })
                  inPool == Cardinality({ j \in DOMAIN unmatched_new : unmatched_new[j].key = k })
                  ofNew == RecordsOfNew(changes, y.marker_path)
              IN  /\ inExact + inMoved + inPool = 1
                  /\ Cardinality(ofNew \cap RecordsOfType(changes, "ADDED")) = inPool
                  /\ Cardinality(ofNew \cap RecordsOfType(changes, "MOVED")) = inMoved
                  /\ inExact = 1 =>
                        \E i \in ofNew : changes[i].change_type \in
                                            {"CONTENT_CHANGED", "RENAMED", "UNCHANGED"}
        /\ \A i \in DOMAIN changes :
              /\ changes[i].old_marker_path # None =>
                    \E x \in OldNodes : changes[i].old_marker_path = Some(x.marker_path)
              /\ changes[i].new_marker_path # None =>
                    \E y \in NewNodes : changes[i].new_marker_path = Some(y.marker_path)
              /\ changes[i].old_marker_path # None \/ changes[i].new_marker_path # None

\* A diff with all four partitions inhabited.
C3_Witness ==
    /\ pc = "done"
    /\ exact_matches # {}
    /\ matches # <<>>
    /\ unmatched_old # <<>>
    /\ unmatched_new # <<>>

\* The keys the two trees share, and the sections of a marker left without
\* an exact match.
SharedKeys == { KeyOf(x) : x \in OldNodes } \cap { KeyOf(y) : y \in NewNodes }

LeftOld(m) == { x \in OldNodes : x.section.marker = m /\ KeyOf(x) \notin SharedKeys }
LeftNew(m) == { y \in NewNodes : y.section.marker = m /\ KeyOf(y) \notin SharedKeys }

Min(a, b) == IF a <= b THEN a ELSE b

PairsOf(m) == { j \in DOMAIN matches : matches[j][1][1] = m }

\* C4: the move pairs are a one-to-one matching of not-exactly-matched old
\* and new keys with equal markers and different ancestor paths; a marker
\* left on N old and M new sections gets at most min(N, M) pairs, and as
\* many MOVED records; 2 old and 2 new give exactly 2.
C4_OneToOneMoves ==
    (pc \in {"find_moved", "emit_moved", "done"}) =>
        /\ \A j \in DOMAIN matches :
              LET ok == matches[j][1]
                  nk == matches[j][2]
              IN  /\ \E x \in LeftOld(ok[1]) : KeyOf(x) = ok
                  /\ \E y \in LeftNew(nk[1]) : KeyOf(y) = nk
                  /\ ok[1] = nk[1]
                  /\ ok[2] # nk[2]
        /\ \A i, j \in DOMAIN matches :
              i # j => matches[i][1] # matches[j][1] /\ matches[i][2] # matches[j][2]
        /\ \A m \in Markers :
              /\ Cardinality(PairsOf(m))
                    <= Min(Cardinality(LeftOld(m)), Cardinality(LeftNew(m)))
              /\ pc = "done" =>
                    /\ Cardinality({ i \in RecordsOfType(changes, "MOVED") :
                                        changes[i].marker = Some(m) })
                          = Cardinality(PairsOf(m))
                    /\ (Cardinality(LeftOld(m)) = 2 /\ Cardinality(LeftNew(m)) = 2) =>
                          Cardinality({ i \in RecordsOfType(changes, "MOVED") :
                                           changes[i].marker = Some(m) }) = 2

\* Two old and two new sections of one marker, none matched exactly.
C4_Witness ==
    /\ pc = "done"
    /\ \E m \in Markers :
          /\ Cardinality(LeftOld(m)) = 2
          /\ Cardinality(LeftNew(m)) = 2
          /\ Cardinality(PairsOf(m)) = 2

\* C5: a second run on the same documents ends with the same four
\* partitions and the same move pairs as the first, in whatever order the
\* set of shared keys was iterated.
C5_Deterministic ==
    (pc = "done" /\ prev # None) => Partition = prev[1]

\* The first exact-match record is not about the first shared key of the old
\* document: the set was iterated out of document order.
OutOfDocumentOrder ==
    LET shared == SelectSeq(DictKeys(old_map), LAMBDA k : k \in exact_matches)
    IN  /\ Len(shared) >= 2
        /\ changes[1].old_marker_path # Some(DictGet(old_map, shared[1]).marker_path)

\* A second run with moves, iterated in another order.
C5_Witness ==
    /\ pc = "done"
    /\ prev # None
    /\ matches # <<>>
    /\ OutOfDocumentOrder

RECURSIVE CountType(_, _)
CountType(chs, type) ==
    IF chs = <<>> THEN 0
    ELSE Bit(Head(chs).change_type = type) + CountType(Tail(chs), type)

\* C6: the counters of a result are the numbers of ADDED, DELETED and MOVED
\* records and of CONTENT_CHANGED plus RENAMED records of its record
\* sequence; UNCHANGED records are in no counter.
C6_CountersConsistent ==
    (pc = "done") =>
        LET r == result[1] IN
        /\ r.changes = changes
        /\ r.added_count = CountType(r.changes, "ADDED")
        /\ r.deleted_count = CountType(r.changes, "DELETED")
        /\ r.moved_count = CountType(r.changes, "MOVED")
        /\ r.modified_count = CountType(r.changes, "CONTENT_CHANGED")
                              + CountType(r.changes, "RENAMED")
        /\ r.added_count + r.deleted_count + r.moved_count + r.modified_count
              + CountType(r.changes, "UNCHANGED") = Len(r.changes)

\* A result with content changes, renames, moves and unchanged sections.
C6_Witness ==
    /\ pc = "done"
    /\ CountType(changes, "CONTENT_CHANGED") >= 1
    /\ CountType(changes, "RENAMED") >= 1
    /\ CountType(changes, "MOVED") >= 1
    /\ result[1].modified_count >= 2

\* The pairs of an old and a new section with the same key, and the pairs
\* that move matching joined.
ExactPairs == { p \in OldNodes \X NewNodes : KeyOf(p[1]) = KeyOf(p[2]) }

MovedPairs ==
    { p \in OldNodes \X NewNodes :
        \E j \in DOMAIN matches : matches[j] = <<KeyOf(p[1]), KeyOf(p[2])>> }

RecordsOfPair(x, y) ==
    RecordsOfOld(changes, x.marker_path) \cup RecordsOfNew(changes, y.marker_path)

SameContent(x, y) == x.section.content = y.section.content
SameTitle(x, y) == x.section.title = y.section.title

\* C7: an exact match with equal content and different titles has exactly
\* one record, a RENAMED one with the old and the new title.
C7_RenameGating ==
    (pc = "done") =>
        \A p \in ExactPairs :
            (SameContent(p[1], p[2]) /\ ~SameTitle(p[1], p[2])) =>
                \E i \in DOMAIN changes :
                    /\ RecordsOfPair(p[1], p[2]) = {i}
                    /\ changes[i].change_type = "RENAMED"
                    /\ changes[i].old_title = Some(p[1].section.title)
                    /\ changes[i].new_title = Some(p[2].section.title)

\* A renamed section below the top level.
C7_Witness ==
    /\ pc = "done"
    /\ \E p \in ExactPairs :
          /\ SameContent(p[1], p[2]) /\ ~SameTitle(p[1], p[2])
          /\ p[1].parent_path # <<>>
          /\ RecordsOfPair(p[1], p[2]) # {}

\* C8: an exact match whose content and title both differ has exactly one
\* record, a CONTENT_CHANGED one with the old and the new content.
C8_ContentChangePrecedence ==
    (pc = "done") =>
        \A p \in ExactPairs :
            (~SameContent(p[1], p[2]) /\ ~SameTitle(p[1], p[2])) =>
                \E i \in DOMAIN changes :
                    /\ RecordsOfPair(p[1], p[2]) = {i}
                    /\ changes[i].change_type = "CONTENT_CHANGED"
                    /\ changes[i].old_content = Some(p[1].section.content)
                    /\ changes[i].new_content = Some(p[2].section.content)

\* An exact match with new content and a new title.
C8_Witness ==
    /\ pc = "done"
    /\ \E p \in ExactPairs :
          /\ ~SameContent(p[1], p[2]) /\ ~SameTitle(p[1], p[2])
          /\ RecordsOfPair(p[1], p[2]) # {}

\* C9: a moved pair with equal content and different titles has exactly two
\* records, one MOVED and one RENAMED, both with the old section's id and
\* the pair's old and new marker paths.
C9_MovedAndRenamed ==
    (pc = "done") =>
        \A p \in MovedPairs :
            (SameContent(p[1], p[2]) /\ ~SameTitle(p[1], p[2])) =>
                \E i, j \in DOMAIN changes :
                    /\ i # j
                    /\ RecordsOfPair(p[1], p[2]) = {i, j}
                    /\ changes[i].change_type = "MOVED"
                    /\ changes[j].change_type = "RENAMED"
                    /\ \A k \in {i, j} :
                          /\ changes[k].section_id = Some(p[1].section.id)
                          /\ changes[k].old_marker_path = Some(p[1].marker_path)
                          /\ changes[k].new_marker_path = Some(p[2].marker_path)

\* A moved and renamed section whose id differs between the two documents.
C9_Witness ==
    /\ pc = "done"
    /\ \E p \in MovedPairs :
          /\ SameContent(p[1], p[2]) /\ ~SameTitle(p[1], p[2])
          /\ p[1].section.id # p[2].section.id
          /\ Cardinality(RecordsOfPair(p[1], p[2])) = 2

\* The words of a content: its maximal runs of non-whitespace characters.
WordSet(c) ==
    UNION { { SubSeq(c, i, j) : j \in { k \in i..Len(c) :
                  /\ \A t \in i..k : c[t] \notin Whitespace
                  /\ (i = 1 \/ c[i - 1] \in Whitespace)
                  /\ (k = Len(c) \/ c[k + 1] \in Whitespace) } } :
            i \in DOMAIN c }

Common(x, y) == WordSet(x.section.content) \cap WordSet(y.section.content)
Either(x, y) == WordSet(x.section.content) \cup WordSet(y.section.content)

\* 5 * |intersection| >= 4 * |union|
JaccardAtLeastFourFifths(x, y) ==
    5 * Cardinality(Common(x, y)) >= 4 * Cardinality(Either(x, y))

ScoredA == call[1].content1
ScoredB == call[1].content2
Scored ==
    /\ call # None
    /\ call[1].fn = "_calculate_content_similarity"
    /\ returned # None

LowerChar(c) == IF c = "A" THEN "a" ELSE c
LowerCase(s) == [i \in DOMAIN s |-> LowerChar(s[i])]

\* C12: the score of two contents is the score of the same contents with
\* every letter put in lower case.
C12_CaseInsensitive ==
    Scored =>
        LET s == returned[1]
            t == CalculateContentSimilarity(LowerCase(ScoredA), LowerCase(ScoredB))
        IN  s.num * t.den = t.num * s.den

MarkersOf(nodes) == { x.section.marker : x \in nodes }

\* The record is a DELETED record of the old section x, with no new_* field.
IsDeletedOf(rec, x) ==
    /\ rec.change_type = "DELETED"
    /\ rec.old_content = Some(x.section.content)
    /\ rec.old_title = Some(x.section.title)
    /\ rec.old_marker_path = Some(x.marker_path)
    /\ rec.old_id_path = Some(x.id_path)
    /\ rec.new_content = None /\ rec.new_title = None
    /\ rec.new_marker_path = None /\ rec.new_id_path = None

\* The record is an ADDED record of the new section y, with no old_* field.
IsAddedOf(rec, y) ==
    /\ rec.change_type = "ADDED"
    /\ rec.new_content = Some(y.section.content)
    /\ rec.new_title = Some(y.section.title)
    /\ rec.new_marker_path = Some(y.marker_path)
    /\ rec.new_id_path = Some(y.id_path)
    /\ rec.old_content = None /\ rec.old_title = None
    /\ rec.old_marker_path = None /\ rec.old_id_path = None

\* C13: an old section whose marker no section of new carries has exactly
\* one record, a DELETED one with the old content, title, marker path and
\* id path and no new_* field.
C13_Deletion ==
    (pc = "done") =>
        \A x \in OldNodes :
            (x.section.marker \notin MarkersOf(NewNodes)) =>
                \E i \in DOMAIN changes :
                    /\ RecordsOfOld(changes, x.marker_path) = {i}
                    /\ { j \in DOMAIN changes : changes[j].section_id = Some(x.section.id)
                                                /\ changes[j].old_id_path = Some(x.id_path) } = {i}
                    /\ IsDeletedOf(changes[i], x)

\* A nested old section deleted from a new document that is not empty.
C13_Witness ==
    /\ pc = "done"
    /\ new # <<>>
    /\ \E x \in OldNodes :
          /\ x.section.marker \notin MarkersOf(NewNodes)
          /\ x.parent_path # <<>>
          /\ RecordsOfOld(changes, x.marker_path) # {}

ValidPair == ~HasDuplicate(old) /\ ~HasDuplicate(new)

DisjointMarkers == MarkersOf(OldNodes) \cap MarkersOf(NewNodes) = {}

\* C15: two valid documents without a common marker (empty ones included)
\* never fail; the result is one DELETED record per old section and one
\* ADDED record per new section, the ADDED ones with the new content, title
\* and paths and no old_* field, and the counters say so.
C15_DisjointInputs ==
    (ValidPair /\ DisjointMarkers) =>
        /\ pc # "failed"
        /\ error = None
        /\ (pc = "done") =>
              /\ Len(changes) = Cardinality(OldNodes) + Cardinality(NewNodes)
              /\ \A x \in OldNodes :
                    \E i \in DOMAIN changes :
                        /\ RecordsOfOld(changes, x.marker_path) = {i}
                        /\ changes[i].change_type = "DELETED"
              /\ \A y \in NewNodes :
                    \E i \in DOMAIN changes :
                        /\ RecordsOfNew(changes, y.marker_path) = {i}
                        /\ IsAddedOf(changes[i], y)
              /\ result[1].changes = changes
              /\ result[1].added_count = Cardinality(NewNodes)
              /\ result[1].deleted_count = Cardinality(OldNodes)
              /\ result[1].moved_count = 0
              /\ result[1].modified_count = 0

\* Two non-empty documents without a common marker, the new one nested.
C15_Witness ==
    /\ pc = "done"
    /\ ValidPair /\ DisjointMarkers
    /\ old # <<>>
    /\ \E y \in NewNodes : y.parent_path # <<>>
    /\ result[1].added_count >= 2 /\ result[1].deleted_count >= 1

TopMarkers(doc) == { doc[i].marker : i \in DOMAIN doc }

\* Exactly one MOVED record, from ("A","1") to ("B","1"), counted once, and
\* nothing counted as modified.
OneMovedRecord ==
    /\ \E i \in DOMAIN changes :
          /\ RecordsOfType(changes, "MOVED") = {i}
          /\ changes[i].old_marker_path = Some(<<"A", "1">>)
          /\ changes[i].new_marker_path = Some(<<"B", "1">>)
    /\ result[1].moved_count = 1
    /\ result[1].modified_count = 0

KeySet(d) == SeqRange(DictKeys(d))

\* One step leaves the documents alone, leaves the indexes alone once they
\* are built, and during move matching only takes keys out of the pools.
StepKeepsInputs ==
    /\ old' = old
    /\ new' = new
    /\ (pc \notin {"validate", "build"}) =>
          /\ old_map' = old_map
          /\ new_map' = new_map
    /\ (pc = "find_moved") =>
          /\ KeySet(unmatched_old') \subseteq KeySet(unmatched_old)
          /\ KeySet(unmatched_new') \subseteq KeySet(unmatched_new)
    /\ (pc' \notin {"validate", "build", "failed"}) =>
          /\ old_map' = BuildMarkerMap(old, <<>>, <<>>)
          /\ new_map' = BuildMarkerMap(new, <<>>, <<>>)

\* C16: no step of diff_documents, whether the call returns or fails,
\* changes the two input trees; the two marker indexes stay as they were
\* built from the trees; move matching removes keys only from the unmatched
\* pools.
C16_NoMutation == [][StepKeepsInputs]_vars

\* A finished call whose move matching took keys out of both pools while
\* the indexes still hold every section of the documents.
C16_Witness ==
    /\ pc = "done"
    /\ matches # <<>>
    /\ Len(old_map) = Cardinality(OldNodes)
    /\ Len(new_map) = Cardinality(NewNodes)
    /\ \E k \in KeySet(old_map) : k \notin exact_matches /\ k \notin KeySet(unmatched_old)
    /\ \E k \in KeySet(new_map) : k \notin exact_matches /\ k \notin KeySet(unmatched_new)

FormatterOf(output_format) ==
    CASE output_format = "json" -> "JsonFormatter"
      [] output_format = "text" -> "TextFormatter"
      [] output_format = "yaml" -> "YamlFormatter"

\* C17: format_diff returns, for "json", "text" and "yaml", the outcome of
\* the corresponding formatter called with the given diff,
\* filter_change_types and filter_section_path; for any other output_format
\* it raises a ValueError whose message begins "Unknown format" and returns
\* nothing.
C17_FormatDispatch ==
    (call # None /\ call[1].fn = "format_diff" /\ returned # None) =>
        LET c == call[1]
            r == returned[1]
        IN  IF c.output_format \in {"json", "text", "yaml"}
            THEN /\ r.kind = "return"
                 /\ r.value.formatter = FormatterOf(c.output_format)
                 /\ r.value.diff = c.diff
                 /\ r.value.filter_change_types = c.filter_change_types
                 /\ r.value.filter_section_path = c.filter_section_path
                 /\ r.value.kwargs \subseteq c.kwargs
            ELSE /\ r.kind = "raise"
                 /\ r.type = "ValueError"
                 /\ r.message[1] = "Unknown format: "
                 /\ r.message[2] = c.output_format

\* The format "JSON", which differs from "json" only by case, is refused.
C17_Witness ==
    /\ call # None
    /\ call[1].fn = "format_diff"
    /\ call[1].output_format = "JSON"
    /\ call[1].filter_change_types # None
    /\ returned # None
    /\ returned[1].kind = "raise"

\* The keys of a document in top-down traversal order: a section, then its
\* subsections, then its next sibling.
RECURSIVE Preorder(_, _)
Preorder(sections, mpath) ==
    IF sections = <<>> THEN <<>>
    ELSE <<<<Head(sections).marker, mpath>>>>
         \o Preorder(Head(sections).sections, Append(mpath, Head(sections).marker))
         \o Preorder(Tail(sections), mpath)

\* The keys of marker m without an exact match, in traversal order.
LeftKeys(doc, m) ==
    SelectSeq(Preorder(doc, <<>>), LAMBDA k : k[1] = m /\ k \notin SharedKeys)

PoolKeys(pool, m) == { k \in KeySet(pool) : k[1] = m }

\* C18: for every marker m the move pairs are (o_k, n_k), k = 1..min(N, M),
\* where o_1..o_N and n_1..n_M are the old and the new keys of m without an
\* exact match in traversal order; the later keys of the longer side stay
\* in their unmatched pool.  Only keys enter: no content, title or score.
C18_FifoPairing ==
    (pc \in {"emit_moved", "done"}) =>
        \A m \in Markers :
            LET o == LeftKeys(old, m)
                n == LeftKeys(new, m)
                k == Min(Len(o), Len(n))
            IN  /\ SelectSeq(matches, LAMBDA p : p[1][1] = m)
                      = [j \in 1..k |-> <<o[j], n[j]>>]
                /\ PoolKeys(unmatched_old, m) = { o[j] : j \in (k + 1)..Len(o) }
                /\ PoolKeys(unmatched_new, m) = { n[j] : j \in (k + 1)..Len(n) }

\* Three old keys against two new keys of one marker: two pairs, in
\* traversal order, and the third old key stays unmatched.
C18_Witness ==
    /\ pc = "done"
    /\ \E m \in Markers :
          /\ Len(LeftKeys(old, m)) = 3
          /\ Len(LeftKeys(new, m)) = 2
          /\ Len(matches) = 2
          /\ PoolKeys(unmatched_old, m) = { LeftKeys(old, m)[3] }

TypesOf(R) == { changes[i].change_type : i \in R }

\* C19: an exact match has exactly one record, CONTENT_CHANGED, RENAMED or
\* UNCHANGED; a moved pair has exactly one MOVED record and at most one
\* more, RENAMED or CONTENT_CHANGED; a moved pair whose title and content
\* both differ has the MOVED record only, whatever the score.
C19_RecordsPerPairing ==
    (pc = "done") =>
        /\ \A p \in ExactPairs :
              \E i \in DOMAIN changes :
                  /\ RecordsOfPair(p[1], p[2]) = {i}
                  /\ changes[i].change_type \in {"CONTENT_CHANGED", "RENAMED", "UNCHANGED"}
        /\ \A p \in MovedPairs :
              LET R == RecordsOfPair(p[1], p[2])
              IN  /\ Cardinality(R \cap RecordsOfType(changes, "MOVED")) = 1
                  /\ Cardinality(R) <= 2
                  /\ TypesOf(R) \subseteq {"MOVED", "RENAMED", "CONTENT_CHANGED"}
                  /\ ~({"RENAMED", "CONTENT_CHANGED"} \subseteq TypesOf(R))
                  /\ (~SameTitle(p[1], p[2]) /\ ~SameContent(p[1], p[2])) =>
                        TypesOf(R) = {"MOVED"}

\* A moved pair with another title and another content of high score
\* (4/5 or more) that has the MOVED record only.
C19_Witness ==
    /\ pc = "done"
    /\ \E p \in MovedPairs :
          /\ ~SameTitle(p[1], p[2])
          /\ ~SameContent(p[1], p[2])
          /\ SimilarityHigh(CalculateContentSimilarity(p[1].section.content,
                                                       p[2].section.content))
          /\ Cardinality(RecordsOfPair(p[1], p[2])) = 1
    /\ ExactPairs # {}

MarkersOfType(type) ==
    { changes[i].marker[1] : i \in RecordsOfType(changes, type) }

\* C20: no marker has both a DELETED and an ADDED record; when an old and a
\* new section of one marker are both without an exact match, a move pair
\* takes one of each, and after move matching the pool of every marker is
\* empty on the old side or on the new side.
C20_MaximalMatching ==
    /\ (pc \in {"emit_moved", "done"}) =>
          \A m \in Markers :
              /\ (LeftOld(m) # {} /\ LeftNew(m) # {}) => PairsOf(m) # {}
              /\ PoolKeys(unmatched_old, m) = {} \/ PoolKeys(unmatched_new, m) = {}
    /\ (pc = "done") =>
          MarkersOfType("DELETED") \cap MarkersOfType("ADDED") = {}

\* A marker left on two new sections and one old section: one pair, and the
\* second new section is ADDED while another marker has a DELETED record.
C20_Witness ==
    /\ pc = "done"
    /\ \E m \in Markers :
          /\ Cardinality(LeftNew(m)) = 2
          /\ Cardinality(LeftOld(m)) = 1
          /\ Cardinality(PairsOf(m)) = 1
          /\ m \in MarkersOfType("ADDED")
    /\ MarkersOfType("DELETED") # {}

\* The pairs of a list of move pairs, each with its two sides exchanged.
Swapped(pairs) == { <<pairs[j][2], pairs[j][1]>> : j \in DOMAIN pairs }

\* C21: the diff of two valid documents taken the other way round has the
\* added and the deleted counts exchanged, the same moved and modified
\* counts, and the same move pairs with old and new exchanged.
C21_ReversalSymmetry ==
    (pc = "done" /\ prev # None) =>
        LET forward == prev[1].diff
            backward == result[1]
        IN  /\ backward.added_count = forward.deleted_count
            /\ backward.deleted_count = forward.added_count
            /\ backward.moved_count = forward.moved_count
            /\ backward.modified_count = forward.modified_count
            /\ Swapped(matches) = SeqRange(prev[1].partition.moved)
            /\ Len(matches) = Len(prev[1].partition.moved)

\* A reversed diff with two move pairs found in another order than before,
\* a modification, and more sections deleted than added.
C21_Witness ==
    /\ pc = "done"
    /\ prev # None
    /\ Len(matches) = 2
    /\ matches[1] = <<prev[1].partition.moved[2][2], prev[1].partition.moved[2][1]>>
    /\ result[1].modified_count >= 1
    /\ result[1].deleted_count > result[1].added_count

====
